---- MODULE Spec2Model ----
EXTENDS Integers, Sequences, FiniteSets, TLC

(***************************************************************************)
(* Model of the dataset join pipeline (code/s01_gen_econ_performance.py),  *)
(* of its key derivations, and of the neighborhood roll-up                 *)
(* (code/single_map.py, code/static_maps.py).                              *)
(*                                                                         *)
(* Text is a sequence of one-character strings.  A cell of a pandas column *)
(* is a record [na, v]: na = TRUE is the missing value (NaN / <NA>).       *)
(* A float64 cell is a record [k, n, d]: k = "num" is the exact rational   *)
(* n/d in lowest terms, k = "nan", "inf", "-inf" are the IEEE specials.    *)
(***************************************************************************)

VARIABLES
    arg,                \* the input of the derivation under study
    out,                \* its result
    step,               \* position inside the derivation
    pc,                 \* position of the s01 script
    config,             \* config.yaml as load_config() returns it
    data_econ_source,   \* the census extract as read
    data_econ,          \* the normalized economic table
    report_card,        \* the two sheets of the report-card workbook
    math_and_science_prof, \* the proficiency table
    school_source,      \* the school directory sheet as read
    school_data,        \* the school metadata table
    data_df,            \* the merged table
    files,              \* the output files written so far: name -> contents
    error               \* the exception that ended the run, "" while none

fnVars == <<arg, out, step>>
pipeVars == <<pc, config, data_econ_source, data_econ, report_card,
              math_and_science_prof, school_source, school_data, data_df,
              files, error>>
vars == <<arg, out, step, pc, config, data_econ_source, data_econ, report_card,
          math_and_science_prof, school_source, school_data, data_df,
          files, error>>

----------------------------------------------------------------------------
(* Bounds of the model *)

MaxPrefixLen == 3
MaxPostalLen == 7
MaxNumLen == 3
MaxCodeLen == 2
MaxEconRows == 1
MaxMathRows == 2
MaxScienceRows == 1
MaxSchoolRows == 2
MaxMapRows == 3

----------------------------------------------------------------------------
(* Text and cells *)

BoundedSeq(S, n) == UNION {[1..k -> S] : k \in 0..n}

DigitChars == <<"0", "1", "2", "3", "4", "5", "6", "7", "8", "9">>
Digits == {DigitChars[i] : i \in 1..10}
DigitVal(c) == (CHOOSE i \in 1..10 : DigitChars[i] = c) - 1

\* the characters of the model that the regex class [a-zA-Z] matches
Letters == {"A", "B", "C", "D", "E", "N", "S", "U", "X", "Z", "a", "e", "n", "o"}
\* the characters of the model that the regex class \s matches
Whitespace == {" "}

NaS == [na |-> TRUE, v |-> <<>>]
StrCell(s) == [na |-> FALSE, v |-> s]
NA == [na |-> TRUE, v |-> 0]
IntCell(n) == [na |-> FALSE, v |-> n]

NaN == [k |-> "nan", n |-> 0, d |-> 1]
PosInf == [k |-> "inf", n |-> 1, d |-> 1]
NegInf == [k |-> "-inf", n |-> -1, d |-> 1]

Abs(x) == IF x < 0 THEN -x ELSE x

RECURSIVE Gcd(_, _)
Gcd(a, b) == IF b = 0 THEN a ELSE Gcd(b, a % b)

\* the float n/d, d > 0, in lowest terms
Frac(n, d) ==
    LET g == Gcd(Abs(n), d)
    IN [k |-> "num", n |-> n \div g, d |-> d \div g]

IsMissing(x) == x.k = "nan"

RECURSIVE StrToNat(_)
StrToNat(s) ==
    IF s = <<>> THEN 0
    ELSE 10 * StrToNat(SubSeq(s, 1, Len(s) - 1)) + DigitVal(s[Len(s)])

AllDigits(s) == \A i \in 1..Len(s) : s[i] \in Digits

\* str.replace(old, "", regex=False) for a one-character old
str_remove(s, chars) == SelectSeq(s, LAMBDA c : c \notin chars)

\* first position of sep in s, 0 when there is none
IndexOf(s, sep) ==
    LET hits == {i \in 1..(Len(s) - Len(sep) + 1) :
                    SubSeq(s, i, i + Len(sep) - 1) = sep}
    IN IF hits = {} THEN 0 ELSE CHOOSE i \in hits : \A j \in hits : i <= j

\* str.split(sep): the pieces between the non-overlapping occurrences of sep
RECURSIVE str_split(_, _)
str_split(s, sep) ==
    LET i == IndexOf(s, sep)
    IN IF i = 0 THEN <<s>>
       ELSE <<SubSeq(s, 1, i - 1)>> \o str_split(SubSeq(s, i + Len(sep), Len(s)), sep)

\* .str[i] on a list cell (0-based): missing when the list is too short
str_get(parts, i) == IF Len(parts) > i THEN StrCell(parts[i + 1]) ELSE NaS

\* pandas.to_numeric(errors="coerce") on a text cell made of signs, digits and
\* characters that occur in no number: an optional sign and digits, or missing
pandas_to_numeric(c) ==
    IF c.na THEN NA
    ELSE LET s == c.v
             signed == s # <<>> /\ s[1] \in {"+", "-"}
             body == IF signed THEN Tail(s) ELSE s
         IN IF body # <<>> /\ AllDigits(body)
            THEN IntCell(IF signed /\ s[1] = "-" THEN -StrToNat(body) ELSE StrToNat(body))
            ELSE NA

\* Series / Series on numeric columns: numpy true division, which raises nothing
float_div(a, b) ==
    IF a.na \/ b.na THEN NaN
    ELSE IF b.v = 0
         THEN (IF a.v = 0 THEN NaN ELSE IF a.v > 0 THEN PosInf ELSE NegInf)
         ELSE IF b.v > 0 THEN Frac(a.v, b.v) ELSE Frac(-a.v, -b.v)

\* Series * m for an integer m > 0
float_mul(x, m) == IF x.k = "num" THEN Frac(x.n * m, x.d) ELSE x

----------------------------------------------------------------------------
(* Key derivations *)

US == <<"U", "S">>

\* the piece after the last "US" instead of the second piece
zip_code_of_geo_id_last(geo_id) ==
    LET parts == str_split(geo_id, US)
    IN pandas_to_numeric(IF Len(parts) > 1 THEN StrCell(parts[Len(parts)]) ELSE NaS)

\* zip_code = to_numeric(geo_id.str.split("US").str[1], errors="coerce").astype("Int64")
zip_code_of_geo_id(geo_id) ==
    pandas_to_numeric(str_get(str_split(geo_id, US), 1))

\* the length of the leading run of whitespace, what ^\s* consumes
LeadingWhitespace(s) ==
    CHOOSE k \in 0..Len(s) :
        /\ \A i \in 1..k : s[i] \in Whitespace
        /\ k = Len(s) \/ s[k + 1] \notin Whitespace

ZipDigits == 5

\* .str.extract(r"^\s*(\d{5})"): the captured group, missing when no match
str_extract_zip(s) ==
    LET ws == LeadingWhitespace(s)
    IN IF Len(s) >= ws + ZipDigits /\ AllDigits(SubSeq(s, ws + 1, ws + ZipDigits))
       THEN StrCell(SubSeq(s, ws + 1, ws + ZipDigits))
       ELSE NaS

\* .astype(int) on the extracted column: int() of the text, and a ValueError
\* for a missing value
astype_int(c) ==
    IF c.na THEN [raised |-> TRUE, val |-> NA]
    ELSE [raised |-> FALSE, val |-> IntCell(StrToNat(c.v))]

\* school_data["zip_code"] of s01
zip_code_of_postal(zip) == astype_int(str_extract_zip(zip))

\* subset_dir_df["zip_clean"] of s02: the extracted text, no cast
zip_clean_of_postal(zip) == [raised |-> FALSE, val |-> str_extract_zip(zip)]

\* math_and_science_prof["RCDTS"]: hyphens removed, then [a-zA-Z] removed
RCDTS_of_report_card(rcdts) == str_remove(str_remove(rcdts, {"-"}), Letters)

\* school_data["RCDTS"]: rcd + type + school, hyphens removed
RCDTS_of_directory(rcd, type, school) == str_remove(rcd \o type \o school, {"-"})

\* the three numeric columns of the census extract, coerced
coerce_econ(row) ==
    [num_unemployed_16_civilian_workforce |-> pandas_to_numeric(StrCell(row.DP03_0005E)),
     population_16_civilian_workforce |-> pandas_to_numeric(StrCell(row.DP03_0003E)),
     percent_below_poverty_level |-> pandas_to_numeric(StrCell(row.DP03_0119PE))]

\* the quotient without the factor 100
unemployment_fraction(x) ==
    float_div(x.num_unemployed_16_civilian_workforce,
              x.population_16_civilian_workforce)

\* unemployment_percentage of line 74
unemployment_percentage(x) ==
    float_mul(float_div(x.num_unemployed_16_civilian_workforce,
                        x.population_16_civilian_workforce), 100)

----------------------------------------------------------------------------
(* The derivations on their own: the input is drawn from a bounded set of    *)
(* texts, the actions apply the code's expressions to it.                    *)

PipelineIdle ==
    /\ pc = "idle"
    /\ config = [readable |-> TRUE, paths |-> {}, exists |-> {}]
    /\ data_econ_source = <<>>
    /\ data_econ = <<>>
    /\ report_card = [math |-> <<>>, science |-> <<>>]
    /\ math_and_science_prof = <<>>
    /\ school_source = <<>>
    /\ school_data = <<>>
    /\ data_df = <<>>
    /\ files = <<>>
    /\ error = ""

PrefixChars == {"U", "S", "8"}
SuffixChars == {"U", "S", "0", "6"}

\* a geo_id: a prefix, the separator or nothing, and up to 5 more characters
InitGeo ==
    /\ \E prefix \in BoundedSeq(PrefixChars, MaxPrefixLen),
          sep \in {<<>>, <<"U", "S">>},
          suffix \in BoundedSeq(SuffixChars, ZipDigits) :
            arg = prefix \o sep \o suffix
    /\ out = NA
    /\ step = "input"
    /\ PipelineIdle

DeriveZipCode ==
    /\ step = "input"
    /\ out' = zip_code_of_geo_id(arg)
    /\ step' = "derived"
    /\ UNCHANGED <<arg, pipeVars>>

NextGeo == DeriveZipCode

SpecGeo == InitGeo /\ [][NextGeo]_vars

PostalChars == {" ", "6", "-", "A"}

InitPostal ==
    /\ arg \in BoundedSeq(PostalChars, MaxPostalLen)
    /\ out = [raised |-> FALSE, val |-> NA]
    /\ step = "input"
    /\ PipelineIdle

ExtractZipS01 ==
    /\ step = "input"
    /\ out' = zip_code_of_postal(arg)
    /\ step' = "s01"
    /\ UNCHANGED <<arg, pipeVars>>

ExtractZipS02 ==
    /\ step = "input"
    /\ out' = zip_clean_of_postal(arg)
    /\ step' = "s02"
    /\ UNCHANGED <<arg, pipeVars>>

NextPostal == ExtractZipS01 \/ ExtractZipS02

SpecPostal == InitPostal /\ [][NextPostal]_vars

NumChars == {"0", "5", "X"}

InitUnemp ==
    /\ arg \in [DP03_0005E : BoundedSeq(NumChars, MaxNumLen),
                DP03_0003E : BoundedSeq(NumChars, MaxNumLen),
                DP03_0119PE : {<<"X">>}]
    /\ out = [num_unemployed_16_civilian_workforce |-> NA,
              population_16_civilian_workforce |-> NA,
              percent_below_poverty_level |-> NA,
              unemployment_percentage |-> NaN]
    /\ step = "input"
    /\ PipelineIdle

CoerceNumeric ==
    /\ step = "input"
    /\ out' = [unemployment_percentage |-> NaN] @@ coerce_econ(arg)
    /\ step' = "coerced"
    /\ UNCHANGED <<arg, pipeVars>>

ComputeUnemployment ==
    /\ step = "coerced"
    /\ out' = [out EXCEPT !.unemployment_percentage = unemployment_percentage(out)]
    /\ step' = "computed"
    /\ UNCHANGED <<arg, pipeVars>>

NextUnemp == CoerceNumeric \/ ComputeUnemployment

SpecUnemp == InitUnemp /\ [][NextUnemp]_vars

CodeChars == {"1", "-", "C"}

\* the report card's RCDTS field for the codes rcd, type, school: the codes in a
\* row, with or without hyphens between them
InitKey ==
    /\ \E rcd \in BoundedSeq(CodeChars, MaxCodeLen),
          type \in BoundedSeq(CodeChars, MaxCodeLen),
          school \in BoundedSeq(CodeChars, MaxCodeLen),
          hyphen \in {<<>>, <<"-">>} :
            arg = [rcd |-> rcd, type |-> type, school |-> school,
                   RCDTS |-> rcd \o hyphen \o type \o hyphen \o school]
    /\ out = [report_card |-> NaS, directory |-> NaS]
    /\ step = "input"
    /\ PipelineIdle

DeriveReportCardKey ==
    /\ out.report_card.na
    /\ out' = [out EXCEPT !.report_card = StrCell(RCDTS_of_report_card(arg.RCDTS))]
    /\ step' = "derived"
    /\ UNCHANGED <<arg, pipeVars>>

DeriveDirectoryKey ==
    /\ out.directory.na
    /\ out' = [out EXCEPT !.directory =
                  StrCell(RCDTS_of_directory(arg.rcd, arg.type, arg.school))]
    /\ step' = "derived"
    /\ UNCHANGED <<arg, pipeVars>>

NextKey == DeriveReportCardKey \/ DeriveDirectoryKey

SpecKey == InitKey /\ [][NextKey]_vars


----------------------------------------------------------------------------
(* Properties of the key derivations *)

\* the text has the form <prefix>US<5 digits>
GeoForm(s) ==
    /\ Len(s) >= ZipDigits + 2
    /\ SubSeq(s, Len(s) - ZipDigits - 1, Len(s) - ZipDigits) = US
    /\ AllDigits(SubSeq(s, Len(s) - ZipDigits + 1, Len(s)))

GeoSuffix(s) == SubSeq(s, Len(s) - ZipDigits + 1, Len(s))

\* the number of occurrences of "US" in s
CountUS(s) == Cardinality({i \in 1..(Len(s) - 1) : SubSeq(s, i, i + 1) = US})

\* the text between the first "US" and the next "US" or the end
AfterFirstUS(s) ==
    LET rest == SubSeq(s, IndexOf(s, US) + 2, Len(s))
        j == IndexOf(rest, US)
    IN IF j = 0 THEN rest ELSE SubSeq(rest, 1, j - 1)

\* C5 as stated: for every identifier of the form <prefix>US<5 digits> the
\* derived zip_code is the integer value of the 5-digit suffix; an identifier
\* with no "US", or with one "US" and a non-numeric text after it, gives a
\* missing zip_code.
C5_SuffixOfEveryGeoForm ==
    step = "derived" =>
        /\ GeoForm(arg) => out = IntCell(StrToNat(GeoSuffix(arg)))
        /\ CountUS(arg) = 0 => out.na
        /\ (CountUS(arg) = 1 /\ ~AllDigits(AfterFirstUS(arg))) => out.na

\* C5 amended: the derived zip_code is the integer value of the digits between
\* the first "US" and the next "US" or the end of the identifier; so for
\* <prefix>US<5 digits> with no "US" inside the prefix it is the value of the
\* 5-digit suffix.  With no "US", or when that text is empty or not made of
\* digits, zip_code is missing.
C5_ZipFromFirstSeparator ==
    step = "derived" =>
        /\ (GeoForm(arg) /\ IndexOf(arg, US) = Len(arg) - ZipDigits - 1)
               => out = IntCell(StrToNat(GeoSuffix(arg)))
        /\ IndexOf(arg, US) = 0 => out.na
        /\ (IndexOf(arg, US) > 0 /\ AfterFirstUS(arg) # <<>>
                /\ AllDigits(AfterFirstUS(arg)))
               => out = IntCell(StrToNat(AfterFirstUS(arg)))
        /\ (IndexOf(arg, US) > 0
                /\ (AfterFirstUS(arg) = <<>> \/ ~AllDigits(AfterFirstUS(arg))))
               => out.na

C5_Witness ==
    /\ step = "derived"
    /\ GeoForm(arg)
    /\ IndexOf(arg, US) = Len(arg) - ZipDigits - 1
    /\ Len(arg) > ZipDigits + 2
    /\ out = IntCell(6006)

\* the text starts, after optional whitespace, with 5 digits
StartsWithZip(s) ==
    \E k \in 0..Len(s) :
        /\ \A i \in 1..k : s[i] \in Whitespace
        /\ Len(s) >= k + ZipDigits
        /\ AllDigits(SubSeq(s, k + 1, k + ZipDigits))

LeadingZip(s) ==
    LET k == CHOOSE k \in 0..Len(s) :
                 /\ \A i \in 1..k : s[i] \in Whitespace
                 /\ Len(s) >= k + ZipDigits
                 /\ AllDigits(SubSeq(s, k + 1, k + ZipDigits))
    IN SubSeq(s, k + 1, k + ZipDigits)

\* C4: for every postal text the extraction gives the leading run of 5 digits
\* (after optional whitespace, whatever follows), and a missing value, without
\* raising, when the text does not start with 5 digits.
C4_LeadingFiveDigitsOrMissing ==
    step \in {"s01", "s02"} =>
        /\ ~out.raised
        /\ StartsWithZip(arg) =>
               out.val = (IF step = "s01" THEN IntCell(StrToNat(LeadingZip(arg)))
                          ELSE StrCell(LeadingZip(arg)))
        /\ ~StartsWithZip(arg) => out.val.na

\* C3: unemployment_percentage is unemployed / workforce * 100 when the
\* workforce is positive, and missing when the workforce is 0, negative or
\* missing.
C3_MissingUnlessPositiveWorkforce ==
    step = "computed" =>
        LET u == out.num_unemployed_16_civilian_workforce
            w == out.population_16_civilian_workforce
        IN /\ (~u.na /\ ~w.na /\ w.v > 0)
                  => out.unemployment_percentage = Frac(u.v * 100, w.v)
           /\ (w.na \/ w.v <= 0) => IsMissing(out.unemployment_percentage)

\* C6: the school identifier derived from the report card and the one derived
\* from the directory, for the same codes, are equal and consist of digits only.
C6_SameDigitsOnlyKeyOnBothSides ==
    (~out.report_card.na /\ ~out.directory.na) =>
        /\ out.report_card = out.directory
        /\ AllDigits(out.report_card.v)
        /\ AllDigits(out.directory.v)

RECURSIVE NatToStr(_)
\* str() of a non-negative int
NatToStr(n) ==
    IF n < 10 THEN <<DigitChars[n + 1]>>
    ELSE NatToStr(n \div 10) \o <<DigitChars[(n % 10) + 1]>>

Range(s) == {s[i] : i \in 1..Len(s)}

RECURSIVE Flatten(_)
Flatten(ss) == IF ss = <<>> THEN <<>> ELSE Head(ss) \o Flatten(Tail(ss))

----------------------------------------------------------------------------
(* The allow-list and the neighborhood names *)

ZIP_CODES == <<60621, 60636, 60619, 60620, 60623, 60624, 60647, 60651>>
ZIP_CODES_ADD == <<60614, 60657, 60626, 60645, 60660, 60640, 60641, 60613, 60657>>
\* an allow-list with a ZIP code that zip_neighbor_dict does not have
ALL_ZIP_CODES_extended == ZIP_CODES \o ZIP_CODES_ADD \o <<60622>>

ALL_ZIP_CODES == ZIP_CODES \o ZIP_CODES_ADD

zip_neighbor_dict ==
    <<  <<<<"6", "0", "6", "2", "1">>, "Englewood">>,
        <<<<"6", "0", "6", "3", "6">>, "Englewood">>,
        <<<<"6", "0", "6", "1", "9">>, "Chatham">>,
        <<<<"6", "0", "6", "2", "0">>, "Chatham">>,
        <<<<"6", "0", "6", "2", "3">>, "North Lawndale">>,
        <<<<"6", "0", "6", "2", "4">>, "East Garfield Park">>,
        <<<<"6", "0", "6", "4", "7">>, "Humboldt Park">>,
        <<<<"6", "0", "6", "5", "1">>, "Humboldt Park">>,
        <<<<"6", "0", "6", "1", "4">>, "Lincoln Park">>,
        <<<<"6", "0", "6", "5", "7">>, "Lincoln Park">>,
        <<<<"6", "0", "6", "2", "6">>, "Rogers Park">>,
        <<<<"6", "0", "6", "4", "5">>, "Rogers Park">>,
        <<<<"6", "0", "6", "6", "0">>, "Edgewater">>,
        <<<<"6", "0", "6", "4", "0">>, "Edgewater">>,
        <<<<"6", "0", "6", "4", "1">>, "Portage Park">>,
        <<<<"6", "0", "6", "1", "3">>, "Lake View">>  >>

\* Series.isin(values): a missing cell is in no list
isin(cell, values) == ~cell.na /\ cell.v \in Range(values)

\* .astype(int).astype(str).map(zip_neighbor_dict).fillna("Unknown")
neighborhood_of(zip_code) ==
    LET key == NatToStr(zip_code.v)
        hits == {i \in 1..Len(zip_neighbor_dict) : zip_neighbor_dict[i][1] = key}
    IN IF hits = {} THEN "Unknown"
       ELSE zip_neighbor_dict[CHOOSE i \in hits : TRUE][2]

----------------------------------------------------------------------------
(* The economic table: s01 lines 45-92 *)

econ_row(r) ==
    LET x == coerce_econ(r)
    IN [zip_code |-> zip_code_of_geo_id(r.GEO_ID),
        unemployment_percentage |-> unemployment_percentage(x)] @@ x

clean_econ(source) ==
    LET kept == SelectSeq([i \in 1..Len(source) |-> econ_row(source[i])],
                          LAMBDA x : isin(x.zip_code, ALL_ZIP_CODES))
    IN [i \in 1..Len(kept) |->
           [neighborhood |-> neighborhood_of(kept[i].zip_code),
            year_of_economic_data |-> "2023"] @@ kept[i]]

----------------------------------------------------------------------------
(* The proficiency table: s01 lines 105-135 *)

NoText == [na |-> TRUE, v |-> ""]
Text(s) == [na |-> FALSE, v |-> s]

\* rows with City = "Chicago" and Level = "School"
chicago_schools(sheet) ==
    SelectSeq(sheet, LAMBDA r : r.City = "Chicago" /\ r.Level = "School")

\* math_prof.merge(science_prof, on=["RCDTS", "School Name", "City"], how="left")
merge_science(math_prof, science_prof) ==
    Flatten([i \in 1..Len(math_prof) |->
        LET l == math_prof[i]
            m == SelectSeq(science_prof,
                           LAMBDA r : /\ r.RCDTS = l.RCDTS
                                      /\ r.School_Name = l.School_Name
                                      /\ r.City = l.City)
            base == [RCDTS |-> l.RCDTS, School_Name |-> l.School_Name,
                     City |-> l.City, ELA_Proficiency |-> l.ELA_Proficiency,
                     Math_Proficiency |-> l.Math_Proficiency]
        IN IF m = <<>> THEN <<[Science_Proficiency |-> NA] @@ base>>
           ELSE [j \in 1..Len(m) |->
                    [Science_Proficiency |-> m[j].Science_Proficiency] @@ base]])

build_proficiency(sheets) ==
    LET merged == merge_science(chicago_schools(sheets.math),
                                chicago_schools(sheets.science))
    IN [i \in 1..Len(merged) |->
           [merged[i] EXCEPT !.RCDTS = RCDTS_of_report_card(merged[i].RCDTS)]]

----------------------------------------------------------------------------
(* The school metadata table: s01 lines 145-159 *)

\* a table left as it is, equal rows included
keep_duplicates(rows) == rows

RECURSIVE drop_duplicates(_)
\* keeps the first of equal rows, in order
drop_duplicates(rows) ==
    IF rows = <<>> THEN <<>>
    ELSE LET init == drop_duplicates(SubSeq(rows, 1, Len(rows) - 1))
             last == rows[Len(rows)]
         IN IF last \in Range(init) THEN init ELSE Append(init, last)

school_row(r) ==
    [RCDTS |-> RCDTS_of_directory(r.rcd, r.type, r.school),
     zip_code |-> zip_code_of_postal(r.Zip).val,
     county |-> r.CountyName]

\* TRUE when .astype(int) raises on the extracted zip column
clean_schools_raises(source) ==
    \E i \in 1..Len(source) : zip_code_of_postal(source[i].Zip).raised

clean_schools(source) ==
    drop_duplicates([i \in 1..Len(source) |-> school_row(source[i])])

----------------------------------------------------------------------------
(* The merge: s01 lines 165-168 *)

\* an inner join in place of the left join
merge_school_inner(prof, schools) ==
    Flatten([i \in 1..Len(prof) |->
        LET m == SelectSeq(schools, LAMBDA r : r.RCDTS = prof[i].RCDTS)
        IN [j \in 1..Len(m) |->
               [zip_code |-> m[j].zip_code, county |-> Text(m[j].county)]
                   @@ prof[i]]])

\* math_and_science_prof.merge(school_data, on="RCDTS", how="left")
merge_school(prof, schools) ==
    Flatten([i \in 1..Len(prof) |->
        LET m == SelectSeq(schools, LAMBDA r : r.RCDTS = prof[i].RCDTS)
        IN IF m = <<>>
           THEN <<[zip_code |-> NA, county |-> NoText] @@ prof[i]>>
           ELSE [j \in 1..Len(m) |->
                    [zip_code |-> m[j].zip_code, county |-> Text(m[j].county)]
                        @@ prof[i]]])

NoEcon ==
    [num_unemployed_16_civilian_workforce |-> NA,
     population_16_civilian_workforce |-> NA,
     percent_below_poverty_level |-> NA,
     unemployment_percentage |-> NaN,
     neighborhood |-> NoText,
     year_of_economic_data |-> NoText]

EconColumns(e) ==
    [num_unemployed_16_civilian_workforce |-> e.num_unemployed_16_civilian_workforce,
     population_16_civilian_workforce |-> e.population_16_civilian_workforce,
     percent_below_poverty_level |-> e.percent_below_poverty_level,
     unemployment_percentage |-> e.unemployment_percentage,
     neighborhood |-> Text(e.neighborhood),
     year_of_economic_data |-> Text(e.year_of_economic_data)]

\* data_df.merge(data_econ, on="zip_code", how="left")
merge_econ(df, econ) ==
    Flatten([i \in 1..Len(df) |->
        LET m == SelectSeq(econ, LAMBDA e : e.zip_code = df[i].zip_code)
        IN IF m = <<>> THEN <<NoEcon @@ df[i]>>
           ELSE [j \in 1..Len(m) |-> EconColumns(m[j]) @@ df[i]]])

\* a filter that only drops the rows without a zip_code
allow_list_rows_notna(df) == SelectSeq(df, LAMBDA r : ~r.zip_code.na)

\* data_df[data_df["zip_code"].isin(ALL_ZIP_CODES)]
allow_list_rows(df) == SelectSeq(df, LAMBDA r : isin(r.zip_code, ALL_ZIP_CODES))

\* the allow-list filter, then zip_code cast to int and to str
filter_allow_list(df) ==
    LET kept == allow_list_rows(df)
    IN [i \in 1..Len(kept) |->
           [kept[i] EXCEPT !.zip_code = StrCell(NatToStr(kept[i].zip_code.v))]]

----------------------------------------------------------------------------
(* The inputs of a run *)

ConfigKeys == {"data_econ_characteristics", "data_report_card", "schools",
               "output_directory"}

\* config.yaml: whether it can be opened and parsed, the keys under "paths",
\* and the keys whose path can be opened
ConfigScenarios ==
    {[readable |-> TRUE, paths |-> ConfigKeys, exists |-> ConfigKeys]}
    \cup {[readable |-> FALSE, paths |-> ConfigKeys, exists |-> ConfigKeys]}
    \cup {[readable |-> TRUE, paths |-> ConfigKeys \ {k}, exists |-> ConfigKeys] :
             k \in ConfigKeys}
    \cup {[readable |-> TRUE, paths |-> ConfigKeys, exists |-> ConfigKeys \ {k}] :
             k \in ConfigKeys \ {"output_directory"}}

EconSamples ==
    {[GEO_ID |-> <<"8", "U", "S", "6", "0", "6", "2", "1">>,
      DP03_0005E |-> <<"5", "0">>, DP03_0003E |-> <<"5", "0", "0">>,
      DP03_0119PE |-> <<"2", "0">>],
     [GEO_ID |-> <<"8", "U", "S", "6", "0", "6", "2", "2">>,
      DP03_0005E |-> <<"5">>, DP03_0003E |-> <<"0">>,
      DP03_0119PE |-> <<"X">>],
     [GEO_ID |-> <<"8", "Z", "6", "0", "6", "2", "4">>,
      DP03_0005E |-> <<"5">>, DP03_0003E |-> <<"5", "0">>,
      DP03_0119PE |-> <<"2", "0">>]}

MathSamples ==
    {[RCDTS |-> <<"1", "5", "-", "1">>, School_Name |-> "Alpha", City |-> "Chicago",
      Level |-> "School", ELA_Proficiency |-> IntCell(30),
      Math_Proficiency |-> IntCell(20)],
     [RCDTS |-> <<"1", "5", "2", "C">>, School_Name |-> "Beta", City |-> "Chicago",
      Level |-> "School", ELA_Proficiency |-> NA,
      Math_Proficiency |-> IntCell(40)],
     [RCDTS |-> <<"1", "5", "-", "3">>, School_Name |-> "Gamma",
      City |-> "Springfield", Level |-> "School",
      ELA_Proficiency |-> IntCell(50), Math_Proficiency |-> IntCell(60)]}

ScienceSamples ==
    {[RCDTS |-> <<"1", "5", "-", "1">>, School_Name |-> "Alpha", City |-> "Chicago",
      Level |-> "School", Science_Proficiency |-> IntCell(10)]}

SchoolSamples ==
    {[CountyName |-> "Cook", rcd |-> <<"1">>, type |-> <<"5">>,
      school |-> <<"-", "1">>, Zip |-> <<" ", "6", "0", "6", "2", "1", "-", "1">>],
     [CountyName |-> "Cook", rcd |-> <<"1">>, type |-> <<"5">>,
      school |-> <<"1">>, Zip |-> <<"6", "0", "6", "2", "4">>],
     [CountyName |-> "Cook", rcd |-> <<"1">>, type |-> <<"5">>,
      school |-> <<"1">>, Zip |-> <<"6", "0", "6", "2", "2">>],
     [CountyName |-> "Lake", rcd |-> <<"1">>, type |-> <<"5">>,
      school |-> <<"3">>, Zip |-> <<"A", "B", "C", "D", "E">>]}

----------------------------------------------------------------------------
(* The run of s01_gen_econ_performance.py *)

\* a lookup that tolerates a missing key
ConfigError_lenient(key) == IF ~config.readable THEN "OSError" ELSE ""

\* load_config()["paths"][key]: the exception it raises, "" when none
ConfigError(key) ==
    IF ~config.readable THEN "OSError"
    ELSE IF key \notin config.paths THEN "KeyError"
    ELSE ""

\* reading the input file that config names under key
ReadError(key) ==
    IF ConfigError(key) # "" THEN ConfigError(key)
    ELSE IF key \notin config.exists THEN "FileNotFoundError"
    ELSE ""

\* a write in append mode (mode="a"): the rows go after the rows the file has
to_csv_append(written, name, rows) ==
    LET old == {i \in 1..Len(written) : written[i].name = name}
        last == CHOOSE i \in old : \A j \in old : j <= i
    IN Append(written,
              [name |-> name,
               rows |-> IF old = {} THEN rows ELSE written[last].rows \o rows])

\* a write that skips an empty table
to_csv_skip_empty(written, name, rows) ==
    IF rows = <<>> THEN written
    ELSE Append(written, [name |-> name, rows |-> rows])

\* DataFrame.to_csv(output_directory + name, index=False)
to_csv(written, name, rows) == Append(written, [name |-> name, rows |-> rows])

FnIdle == arg = <<>> /\ out = <<>> /\ step = "idle"

\* The contents of the three input files.  The first run of the script finds
\* any table in them; a later run finds the tables the first run found (arg
\* holds them), for nothing in the script writes to an input file.
EconFile ==
    IF step = "rerun" THEN {arg.data_econ_characteristics}
    ELSE BoundedSeq(EconSamples, MaxEconRows)

ReportCardFile ==
    IF step = "rerun" THEN {arg.data_report_card}
    ELSE {[math |-> m, science |-> s] :
             m \in BoundedSeq(MathSamples, MaxMathRows),
             s \in BoundedSeq(ScienceSamples, MaxScienceRows)}

SchoolsFile ==
    IF step = "rerun" THEN {arg.schools}
    ELSE BoundedSeq(SchoolSamples, MaxSchoolRows)

Init ==
    /\ FnIdle
    /\ pc = "read_econ"
    /\ config \in ConfigScenarios
    /\ data_econ_source = <<>>
    /\ data_econ = <<>>
    /\ report_card = [math |-> <<>>, science |-> <<>>]
    /\ math_and_science_prof = <<>>
    /\ school_source = <<>>
    /\ school_data = <<>>
    /\ data_df = <<>>
    /\ files = <<>>
    /\ error = ""

\* lines 17-19
ReadEcon ==
    /\ pc = "read_econ" /\ error = ""
    /\ IF ReadError("data_econ_characteristics") # ""
       THEN /\ error' = ReadError("data_econ_characteristics")
            /\ UNCHANGED <<pc, data_econ_source>>
       ELSE /\ data_econ_source' \in EconFile
            /\ pc' = "clean_econ"
            /\ UNCHANGED error
    /\ UNCHANGED <<fnVars, config, data_econ, report_card, math_and_science_prof,
                   school_source, school_data, data_df, files>>

\* lines 45-92
CleanEcon ==
    /\ pc = "clean_econ" /\ error = ""
    /\ data_econ' = clean_econ(data_econ_source)
    /\ pc' = "write_econ"
    /\ UNCHANGED <<fnVars, config, data_econ_source, report_card,
                   math_and_science_prof, school_source, school_data, data_df,
                   files, error>>

\* line 93
WriteEcon ==
    /\ pc = "write_econ" /\ error = ""
    /\ IF ConfigError("output_directory") # ""
       THEN /\ error' = ConfigError("output_directory")
            /\ UNCHANGED <<pc, files>>
       ELSE /\ files' = to_csv(files, "economic_characteristics.csv", data_econ)
            /\ pc' = "read_report_card"
            /\ UNCHANGED error
    /\ UNCHANGED <<fnVars, config, data_econ_source, data_econ, report_card,
                   math_and_science_prof, school_source, school_data, data_df>>

\* lines 99-102 and 114-117
ReadReportCard ==
    /\ pc = "read_report_card" /\ error = ""
    /\ IF ReadError("data_report_card") # ""
       THEN /\ error' = ReadError("data_report_card")
            /\ UNCHANGED <<pc, report_card>>
       ELSE /\ report_card' \in ReportCardFile
            /\ pc' = "build_proficiency"
            /\ UNCHANGED error
    /\ UNCHANGED <<fnVars, config, data_econ_source, data_econ,
                   math_and_science_prof, school_source, school_data, data_df,
                   files>>

\* lines 105-111, 120-135
BuildProficiency ==
    /\ pc = "build_proficiency" /\ error = ""
    /\ math_and_science_prof' = build_proficiency(report_card)
    /\ pc' = "write_proficiency"
    /\ UNCHANGED <<fnVars, config, data_econ_source, data_econ, report_card,
                   school_source, school_data, data_df, files, error>>

\* line 136
WriteProficiency ==
    /\ pc = "write_proficiency" /\ error = ""
    /\ IF ConfigError("output_directory") # ""
       THEN /\ error' = ConfigError("output_directory")
            /\ UNCHANGED <<pc, files>>
       ELSE /\ files' = to_csv(files, "report_card_proficiency_scores.csv",
                               math_and_science_prof)
            /\ pc' = "read_schools"
            /\ UNCHANGED error
    /\ UNCHANGED <<fnVars, config, data_econ_source, data_econ, report_card,
                   math_and_science_prof, school_source, school_data, data_df>>

\* lines 141-144
ReadSchools ==
    /\ pc = "read_schools" /\ error = ""
    /\ IF ReadError("schools") # ""
       THEN /\ error' = ReadError("schools")
            /\ UNCHANGED <<pc, school_source>>
       ELSE /\ school_source' \in SchoolsFile
            /\ pc' = "clean_schools"
            /\ UNCHANGED error
    /\ UNCHANGED <<fnVars, config, data_econ_source, data_econ, report_card,
                   math_and_science_prof, school_data, data_df, files>>

\* lines 145-159
CleanSchools ==
    /\ pc = "clean_schools" /\ error = ""
    /\ IF clean_schools_raises(school_source)
       THEN /\ error' = "ValueError"
            /\ UNCHANGED <<pc, school_data>>
       ELSE /\ school_data' = clean_schools(school_source)
            /\ pc' = "write_schools"
            /\ UNCHANGED error
    /\ UNCHANGED <<fnVars, config, data_econ_source, data_econ, report_card,
                   math_and_science_prof, school_source, data_df, files>>

\* line 161
WriteSchools ==
    /\ pc = "write_schools" /\ error = ""
    /\ IF ConfigError("output_directory") # ""
       THEN /\ error' = ConfigError("output_directory")
            /\ UNCHANGED <<pc, files>>
       ELSE /\ files' = to_csv(files, "school_metadata.csv", school_data)
            /\ pc' = "merge_school"
            /\ UNCHANGED error
    /\ UNCHANGED <<fnVars, config, data_econ_source, data_econ, report_card,
                   math_and_science_prof, school_source, school_data, data_df>>

\* line 165
MergeSchool ==
    /\ pc = "merge_school" /\ error = ""
    /\ data_df' = merge_school(math_and_science_prof, school_data)
    /\ pc' = "merge_econ"
    /\ UNCHANGED <<fnVars, config, data_econ_source, data_econ, report_card,
                   math_and_science_prof, school_source, school_data, files,
                   error>>

\* line 166
MergeEcon ==
    /\ pc = "merge_econ" /\ error = ""
    /\ data_df' = merge_econ(data_df, data_econ)
    /\ pc' = "filter"
    /\ UNCHANGED <<fnVars, config, data_econ_source, data_econ, report_card,
                   math_and_science_prof, school_source, school_data, files,
                   error>>

\* lines 167-168
FilterAllowList ==
    /\ pc = "filter" /\ error = ""
    /\ data_df' = filter_allow_list(data_df)
    /\ pc' = "write_merged"
    /\ UNCHANGED <<fnVars, config, data_econ_source, data_econ, report_card,
                   math_and_science_prof, school_source, school_data, files,
                   error>>

\* line 169
WriteMerged ==
    /\ pc = "write_merged" /\ error = ""
    /\ IF ConfigError("output_directory") # ""
       THEN /\ error' = ConfigError("output_directory")
            /\ UNCHANGED <<pc, files>>
       ELSE /\ files' = to_csv(files, "merged_data.csv", data_df)
            /\ pc' = "done"
            /\ UNCHANGED error
    /\ UNCHANGED <<fnVars, config, data_econ_source, data_econ, report_card,
                   math_and_science_prof, school_source, school_data, data_df>>

Next ==
    \/ ReadEcon \/ CleanEcon \/ WriteEcon
    \/ ReadReportCard \/ BuildProficiency \/ WriteProficiency
    \/ ReadSchools \/ CleanSchools \/ WriteSchools
    \/ MergeSchool \/ MergeEcon \/ FilterAllowList \/ WriteMerged

Spec == Init /\ [][Next]_vars

\* The script is run again after a complete run: a new process, with empty
\* tables, the same config.yaml and the same input files.  files goes on as
\* the record of the writes, so that the writes of the two runs can be
\* compared: the contents of an output file are those of its last write.
Rerun ==
    /\ pc = "done" /\ error = "" /\ step = "idle"
    /\ step' = "rerun"
    /\ arg' = [data_econ_characteristics |-> data_econ_source,
               data_report_card |-> report_card,
               schools |-> school_source]
    /\ pc' = "read_econ"
    /\ data_econ_source' = <<>>
    /\ data_econ' = <<>>
    /\ report_card' = [math |-> <<>>, science |-> <<>>]
    /\ math_and_science_prof' = <<>>
    /\ school_source' = <<>>
    /\ school_data' = <<>>
    /\ data_df' = <<>>
    /\ UNCHANGED <<out, config, files, error>>

NextRerun == Next \/ Rerun

SpecRerun == Init /\ [][NextRerun]_vars

----------------------------------------------------------------------------
(* Properties of the run *)

OutputOrder ==
    <<"economic_characteristics.csv", "report_card_proficiency_scores.csv",
      "school_metadata.csv", "merged_data.csv">>

\* the number of output files whose stage lies before position p
StagesDone(p) ==
    CASE p \in {"read_econ", "clean_econ", "write_econ"} -> 0
      [] p \in {"read_report_card", "build_proficiency", "write_proficiency"} -> 1
      [] p \in {"read_schools", "clean_schools", "write_schools"} -> 2
      [] p \in {"merge_school", "merge_econ", "filter", "write_merged"} -> 3
      [] OTHER -> 4

MergedWritten == {i \in 1..Len(files) : files[i].name = "merged_data.csv"}

\* C1: every row written to merged_data.csv has a zip_code of the allow-list.
C1_MergedZipInAllowList ==
    \A i \in MergedWritten :
        \A j \in 1..Len(files[i].rows) :
            /\ ~files[i].rows[j].zip_code.na
            /\ StrToNat(files[i].rows[j].zip_code.v) \in Range(ALL_ZIP_CODES)

\* a run that wrote a non-empty merged_data.csv although a proficiency row
\* matched a school of ZIP 60622 and the census extract had a 60622 row
C1_Witness ==
    /\ \E i \in MergedWritten : files[i].rows # <<>>
    /\ \E i \in 1..Len(math_and_science_prof), j \in 1..Len(school_data) :
           /\ school_data[j].RCDTS = math_and_science_prof[i].RCDTS
           /\ school_data[j].zip_code = IntCell(60622)
    /\ \E i \in 1..Len(data_econ_source) :
           zip_code_of_geo_id(data_econ_source[i].GEO_ID) = IntCell(60622)

\* the merged row r carries the proficiency row p
SameProf(r, p) ==
    /\ r.RCDTS = p.RCDTS
    /\ r.School_Name = p.School_Name
    /\ r.City = p.City
    /\ r.ELA_Proficiency = p.ELA_Proficiency
    /\ r.Math_Proficiency = p.Math_Proficiency
    /\ r.Science_Proficiency = p.Science_Proficiency

Shown(p) == \E j \in 1..Len(data_df) : SameProf(data_df[j], p)

HasMetadata(p) == \E j \in 1..Len(school_data) : school_data[j].RCDTS = p.RCDTS

HasAllowedZip(p) ==
    \E j \in 1..Len(school_data) :
        /\ school_data[j].RCDTS = p.RCDTS
        /\ isin(school_data[j].zip_code, ALL_ZIP_CODES)

EconMissing(r) ==
    /\ r.num_unemployed_16_civilian_workforce.na
    /\ r.population_16_civilian_workforce.na
    /\ r.percent_below_poverty_level.na
    /\ IsMissing(r.unemployment_percentage)
    /\ r.neighborhood.na
    /\ r.year_of_economic_data.na

\* the zip_code of a merged row as a number, before and after the cast to text
ZipNumber(r) == IF pc = "filter" THEN r.zip_code.v ELSE StrToNat(r.zip_code.v)

HasEcon(r) ==
    /\ ~r.zip_code.na
    /\ \E j \in 1..Len(data_econ) : data_econ[j].zip_code.v = ZipNumber(r)

\* after both joins every proficiency row is there, without metadata fields
\* when no school matches and without economic fields when no ZIP matches
JoinsKeepEveryRow ==
    /\ pc \in {"merge_econ", "filter"} =>
           \A i \in 1..Len(math_and_science_prof) :
               LET p == math_and_science_prof[i]
               IN /\ Shown(p)
                  /\ ~HasMetadata(p) =>
                         \A j \in 1..Len(data_df) :
                             SameProf(data_df[j], p) =>
                                 data_df[j].zip_code.na /\ data_df[j].county.na
    /\ pc \in {"filter", "write_merged", "done"} =>
           \A j \in 1..Len(data_df) : ~HasEcon(data_df[j]) => EconMissing(data_df[j])

\* C2 as stated: the joins keep every proficiency row, and the output shows a
\* school that lacks metadata or economic coverage, with missing fields: only
\* a school whose ZIP codes are all outside the allow-list is left out.
C2_UncoveredSchoolsShown ==
    /\ JoinsKeepEveryRow
    /\ pc \in {"write_merged", "done"} =>
           \A i \in 1..Len(math_and_science_prof) :
               LET p == math_and_science_prof[i]
               IN (~HasMetadata(p) \/ HasAllowedZip(p)) => Shown(p)

\* C2 amended: the joins keep every proficiency row; the allow-list filter is
\* the only step that removes rows, and it leaves exactly the schools that have
\* a metadata row with a ZIP of the allow-list: a school without economic
\* coverage is shown with missing economic fields, a school without metadata
\* has a missing ZIP and is left out.
C2_LeftJoinsThenAllowList ==
    /\ JoinsKeepEveryRow
    /\ pc \in {"write_merged", "done"} =>
           \A i \in 1..Len(math_and_science_prof) :
               LET p == math_and_science_prof[i]
               IN /\ Shown(p) <=> HasAllowedZip(p)
                  /\ ~HasMetadata(p) => ~Shown(p)

\* a finished run whose output shows a school without economic coverage and
\* leaves out a school without metadata
C2_Witness ==
    /\ pc = "done"
    /\ \E j \in 1..Len(data_df) : ~HasEcon(data_df[j]) /\ EconMissing(data_df[j])
    /\ \E i \in 1..Len(math_and_science_prof) :
           ~HasMetadata(math_and_science_prof[i])

\* C7 as stated: a run that failed has written no output file.
C7_NoFileAfterFailure == error # "" => files = <<>>

\* C7 amended: each output file is written once, when its own stage is done,
\* in the order economic, proficiency, school metadata, merged; a run that
\* failed has written the files of the stages before the failure, never
\* merged_data.csv.
C7_FilesOfFinishedStages ==
    /\ Len(files) = StagesDone(pc)
    /\ \A i \in 1..Len(files) : files[i].name = OutputOrder[i]
    /\ error # "" => MergedWritten = {}

\* a run that failed in the school directory stage with two files written
C7_Witness ==
    /\ error = "ValueError"
    /\ Len(files) = 2

ConfigBad == ~config.readable \/ config.paths # ConfigKeys

\* C8 as stated: with an unreadable config or a missing path key the run
\* stops before any source is read or transformed and before any file is
\* written.
C8_ConfigCheckedUpFront ==
    ConfigBad => pc = "read_econ" /\ files = <<>>

\* C8 amended: a configuration error is fatal, and found at the first
\* load_config() call that needs the file or the key: an unreadable config or a
\* missing data_econ_characteristics stops the run before anything is read; a
\* missing output_directory after the economic table is built and before any
\* file is written; a missing data_report_card after
\* economic_characteristics.csv is written; a missing schools after the
\* proficiency file is written too.  merged_data.csv is never written.
C8_ConfigErrorFatalWhereNeeded ==
    ConfigBad =>
        /\ pc # "done" /\ MergedWritten = {}
        /\ (~config.readable \/ "data_econ_characteristics" \notin config.paths)
               => pc = "read_econ" /\ files = <<>>
        /\ "output_directory" \notin config.paths
               => pc \in {"read_econ", "clean_econ", "write_econ"} /\ files = <<>>
        /\ "data_report_card" \notin config.paths
               => pc \in {"read_econ", "clean_econ", "write_econ", "read_report_card"}
                  /\ Len(files) <= 1
        /\ "schools" \notin config.paths
               => StagesDone(pc) <= 2 /\ pc \notin {"clean_schools", "write_schools"}
                  /\ Len(files) <= 2

\* a run stopped by the missing schools key after two files were written
C8_Witness ==
    /\ "schools" \notin config.paths
    /\ error = "KeyError"
    /\ Len(files) = 2

\* C9: a source row whose ZIP does not parse stays in its normalized table with
\* a missing zip_code, and the run goes on: an economic row with an unparseable
\* geo_id in data_econ, a directory row with an unparseable postal field in
\* school_data.
C9_UnparseableRowsRetained ==
    /\ pc = "clean_schools" => error = ""
    /\ StagesDone(pc) >= 3 =>
           \A i \in 1..Len(school_source) :
               str_extract_zip(school_source[i].Zip).na =>
                   \E j \in 1..Len(school_data) : school_data[j].zip_code.na
    /\ pc \notin {"read_econ", "clean_econ"} =>
           \A i \in 1..Len(data_econ_source) :
               zip_code_of_geo_id(data_econ_source[i].GEO_ID).na =>
                   \E j \in 1..Len(data_econ) : data_econ[j].zip_code.na

----------------------------------------------------------------------------
(* The neighborhood roll-up: single_map.py and static_maps.py, lines 14-56 *)

vars_to_map ==
    <<"% ELA Proficiency", "% Math Proficiency", "% Science Proficiency",
      "unemployment_percentage", "percent_below_poverty_level">>

\* a replace whose result is not assigned to the column
replace_neighborhood_unassigned(label) == label

\* school_data["neighborhood"].replace({"East Garfield Park": "Garfield Park"})
replace_neighborhood(label) ==
    IF label = Text("East Garfield Park") THEN Text("Garfield Park") ELSE label

\* .str.strip()
RECURSIVE str_strip(_)
str_strip(s) ==
    IF s # <<>> /\ s[1] \in Whitespace THEN str_strip(Tail(s))
    ELSE IF s # <<>> /\ s[Len(s)] \in Whitespace
         THEN str_strip(SubSeq(s, 1, Len(s) - 1))
         ELSE s

MissingTokens ==
    {<<"n", "a", "n">>, <<"N", "o", "n", "e">>, <<"N", "/", "A">>, <<"N", "A">>, <<>>}

\* to_numeric(series) of the map scripts, on one cell cast to text
to_numeric(s) ==
    LET cleaned == str_remove(str_remove(str_strip(s), {"%"}), {","})
    IN IF cleaned \in MissingTokens THEN NA
       ELSE pandas_to_numeric(StrCell(cleaned))

\* a median that counts a missing cell as 0
median_zero_fill(cells) ==
    LET sorted == SortSeq([i \in 1..Len(cells) |->
                              IF cells[i].na THEN 0 ELSE cells[i].v],
                          LAMBDA a, b : a < b)
        n == Len(sorted)
    IN IF n = 0 THEN NaN
       ELSE IF n % 2 = 1 THEN Frac(sorted[(n + 1) \div 2], 1)
       ELSE Frac(sorted[n \div 2] + sorted[n \div 2 + 1], 2)

\* "median" of a column of a group: missing cells are skipped, an empty column
\* gives NaN
median(cells) ==
    LET present == SelectSeq(cells, LAMBDA c : ~c.na)
        sorted == SortSeq([i \in 1..Len(present) |-> present[i].v],
                          LAMBDA a, b : a < b)
        n == Len(sorted)
    IN IF n = 0 THEN NaN
       ELSE IF n % 2 = 1 THEN Frac(sorted[(n + 1) \div 2], 1)
       ELSE Frac(sorted[n \div 2] + sorted[n \div 2 + 1], 2)

\* "nunique" of a column of a group: the distinct cells that are not missing
nunique(cells) == Cardinality({cells[i].v : i \in {j \in 1..Len(cells) : ~cells[j].na}})

\* the labels of the model in the order groupby sorts them
SortedLabels == <<"East Garfield Park", "Englewood", "Garfield Park">>

\* groupby("pri_neigh", as_index=False).agg(n_schools, medians): one row for
\* each label of the table, rows without a label are not grouped
aggregate(table) ==
    LET present == SelectSeq(SortedLabels,
                       LAMBDA l : \E i \in 1..Len(table) : table[i].pri_neigh = Text(l))
        group(l) == SelectSeq(table, LAMBDA r : r.pri_neigh = Text(l))
    IN [g \in 1..Len(present) |->
           LET rows == group(present[g])
           IN [pri_neigh |-> present[g],
               n_schools |-> nunique([i \in 1..Len(rows) |-> rows[i].RCDTS]),
               metrics |-> [v \in Range(vars_to_map) |->
                               median([i \in 1..Len(rows) |-> rows[i].metrics[v]])]]]

\* the cells of clean_data.csv in the model: the ELA column differs from the
\* other metric columns
MetricProfiles ==
    {[v \in Range(vars_to_map) |->
         IF v = "% ELA Proficiency" THEN <<"1", "0">> ELSE <<"3", "0", "%">>],
     [v \in Range(vars_to_map) |->
         IF v = "% ELA Proficiency" THEN <<"3", "0", "%">> ELSE <<"1", "0">>],
     [v \in Range(vars_to_map) |-> <<"n", "a", "n">>]}

\* the rows of clean_data.csv in the model: every kind of row for the two
\* Garfield Park labels, two schools of another neighborhood, and a row
\* without a neighborhood
MapRows ==
    [neighborhood : {Text("East Garfield Park"), Text("Garfield Park")},
     RCDTS : {IntCell(1), IntCell(2)},
     metrics : MetricProfiles]
    \cup [neighborhood : {Text("Englewood")}, RCDTS : {IntCell(1), IntCell(2)},
          metrics : {[v \in Range(vars_to_map) |-> <<"1", "0">>]}]
    \cup [neighborhood : {NoText}, RCDTS : {IntCell(1)},
          metrics : {[v \in Range(vars_to_map) |-> <<"1", "0">>]}]

InitMap ==
    /\ arg \in BoundedSeq(MapRows, MaxMapRows)
    /\ out = [school_data |-> <<>>, df_neigh |-> <<>>]
    /\ step = "input"
    /\ PipelineIdle

\* lines 17-22
HarmonizeNames ==
    /\ step = "input"
    /\ out' = [out EXCEPT !.school_data =
                  [i \in 1..Len(arg) |->
                      [pri_neigh |-> replace_neighborhood(arg[i].neighborhood),
                       RCDTS |-> arg[i].RCDTS,
                       metrics |-> arg[i].metrics]]]
    /\ step' = "harmonized"
    /\ UNCHANGED <<arg, pipeVars>>

\* lines 44-46
CoerceMetrics ==
    /\ step = "harmonized"
    /\ out' = [out EXCEPT !.school_data =
                  [i \in 1..Len(out.school_data) |->
                      [out.school_data[i] EXCEPT !.metrics =
                          [v \in Range(vars_to_map) |->
                              to_numeric(out.school_data[i].metrics[v])]]]]
    /\ step' = "numeric"
    /\ UNCHANGED <<arg, pipeVars>>

\* lines 49-56
Aggregate ==
    /\ step = "numeric"
    /\ out' = [out EXCEPT !.df_neigh = aggregate(out.school_data)]
    /\ step' = "aggregated"
    /\ UNCHANGED <<arg, pipeVars>>

NextMap == HarmonizeNames \/ CoerceMetrics \/ Aggregate

SpecMap == InitMap /\ [][NextMap]_vars

\* the rows of the per-school table with label l
RowsOf(l) ==
    {i \in 1..Len(out.school_data) : out.school_data[i].pri_neigh = Text(l)}

\* the rows of I whose metric v is not missing
Present(I, v) == {i \in I : ~out.school_data[i].metrics[v].na}

Value(i, v) == out.school_data[i].metrics[v].v

\* the k-th smallest value of metric v over the rows I
Kth(I, v, k) ==
    CHOOSE x \in {Value(i, v) : i \in I} :
        /\ Cardinality({i \in I : Value(i, v) < x}) <= k - 1
        /\ Cardinality({i \in I : Value(i, v) <= x}) >= k

\* the median of metric v over the rows I, none of them missing
MedianOf(I, v) ==
    LET n == Cardinality(I)
    IN IF n = 0 THEN NaN
       ELSE IF n % 2 = 1 THEN Frac(Kth(I, v, (n + 1) \div 2), 1)
       ELSE Frac(Kth(I, v, n \div 2) + Kth(I, v, n \div 2 + 1), 2)

\* C10: the roll-up has exactly one row for each neighborhood label of the
\* per-school table; each metric of the row is the median of the values of the
\* neighborhood's rows that are not missing, and n_schools is the number of
\* distinct school identifiers of the neighborhood.
C10_OneRowPerNeighborhood ==
    step = "aggregated" =>
        LET labels == {out.school_data[i].pri_neigh.v :
                          i \in {j \in 1..Len(out.school_data) :
                                    ~out.school_data[j].pri_neigh.na}}
            res == out.df_neigh
        IN /\ {res[g].pri_neigh : g \in 1..Len(res)} = labels
           /\ Len(res) = Cardinality(labels)
           /\ \A g \in 1..Len(res) :
                  LET I == RowsOf(res[g].pri_neigh)
                  IN /\ res[g].n_schools =
                            Cardinality({out.school_data[i].RCDTS.v : i \in I})
                     /\ \A v \in Range(vars_to_map) :
                            res[g].metrics[v] = MedianOf(Present(I, v), v)

\* a neighborhood with the ELA values 10, missing and 30, whose median is 20
C10_Witness ==
    /\ step = "aggregated"
    /\ \E g \in 1..Len(out.df_neigh) :
           LET I == RowsOf(out.df_neigh[g].pri_neigh)
           IN /\ Cardinality(I) = 3
              /\ Cardinality(Present(I, "% ELA Proficiency")) = 2
              /\ {Value(i, "% ELA Proficiency") :
                     i \in Present(I, "% ELA Proficiency")} = {10, 30}
              /\ out.df_neigh[g].metrics["% ELA Proficiency"] = Frac(20, 1)

----------------------------------------------------------------------------
(* Two runs on the same inputs *)

NumOutputs == Len(OutputOrder)

----------------------------------------------------------------------------
(* Rows per entity *)

RECURSIVE SumSeq(_)
SumSeq(ns) == IF ns = <<>> THEN 0 ELSE Head(ns) + SumSeq(Tail(ns))

\* the rows written to the output file of that name
Written(name) == {files[i].rows : i \in {k \in 1..Len(files) : files[k].name = name}}

\* the number of economic rows of that ZIP
EconRowsOf(zip_code) ==
    Cardinality({k \in 1..Len(data_econ) : data_econ[k].zip_code = zip_code})

\* the number of merged rows the proficiency row p gives: one for each
\* metadata row of its identifier with a ZIP of the allow-list and each
\* economic row of that ZIP, one where no economic row has that ZIP
MergedRowsOf(p) ==
    SumSeq([j \in 1..Len(school_data) |->
               IF /\ school_data[j].RCDTS = p.RCDTS
                  /\ isin(school_data[j].zip_code, ALL_ZIP_CODES)
               THEN IF EconRowsOf(school_data[j].zip_code) = 0 THEN 1
                    ELSE EconRowsOf(school_data[j].zip_code)
               ELSE 0])

UniqueRCDTS ==
    \A i, j \in 1..Len(school_data) :
        school_data[i].RCDTS = school_data[j].RCDTS => i = j

UniqueZip ==
    \A i, j \in 1..Len(data_econ) :
        data_econ[i].zip_code = data_econ[j].zip_code => i = j

----------------------------------------------------------------------------
(* The neighborhood names of the roll-up *)

\* C13: from the harmonization on, a row that had the label "East Garfield
\* Park" has the label "Garfield Park" and every other row has the label it
\* had, a missing label included; no row of the per-school table and no row of
\* the roll-up that is joined to the boundary table is labelled "East Garfield
\* Park".
C13_EastGarfieldParkRenamed ==
    step # "input" =>
        /\ Len(out.school_data) = Len(arg)
        /\ \A i \in 1..Len(arg) :
               LET before == arg[i].neighborhood
                   after == out.school_data[i].pri_neigh
               IN /\ before = Text("East Garfield Park") => after = Text("Garfield Park")
                  /\ before # Text("East Garfield Park") => after = before
                  /\ after # Text("East Garfield Park")
        /\ \A g \in 1..Len(out.df_neigh) :
               out.df_neigh[g].pri_neigh # "East Garfield Park"

\* a roll-up of an "East Garfield Park" row, a "Garfield Park" row and an
\* "Englewood" row: two neighborhoods, the two Garfield Park rows in one
C13_Witness ==
    /\ step = "aggregated"
    /\ \E i, j, k \in 1..Len(arg) :
           /\ arg[i].neighborhood = Text("East Garfield Park")
           /\ arg[j].neighborhood = Text("Garfield Park")
           /\ arg[k].neighborhood = Text("Englewood")
    /\ Len(out.df_neigh) = 2
    /\ Cardinality(RowsOf("Garfield Park")) = 2

----------------------------------------------------------------------------
(* End to end *)

\* the metadata rows of the identifier of proficiency row p
MetadataOf(p) == {j \in 1..Len(school_data) : school_data[j].RCDTS = p.RCDTS}

\* the census extract has one record, of ZIP 60621 with 50 unemployed in a
\* workforce of 500; there is one proficiency record, and its identifier has
\* one metadata row, of ZIP 60621
OneSchoolOneZip ==
    /\ Len(data_econ_source) = 1
    /\ zip_code_of_geo_id(data_econ_source[1].GEO_ID) = IntCell(60621)
    /\ data_econ_source[1].DP03_0005E = <<"5", "0">>
    /\ data_econ_source[1].DP03_0003E = <<"5", "0", "0">>
    /\ Len(math_and_science_prof) = 1
    /\ Cardinality(MetadataOf(math_and_science_prof[1])) = 1
    /\ \A j \in MetadataOf(math_and_science_prof[1]) :
           school_data[j].zip_code = IntCell(60621)

\* C14: with one economic record of ZIP 60621, 50 unemployed and a workforce
\* of 500, and one Chicago school-level proficiency record whose identifier
\* has one metadata row, of ZIP 60621, merged_data.csv has exactly one row:
\* zip_code 60621, unemployment_percentage 10.0, and the ELA, Math and Science
\* fields of the proficiency record.
C14_OneSchoolOneZipOneRow ==
    (pc = "done" /\ OneSchoolOneZip) =>
        \A rows \in Written("merged_data.csv") :
            /\ Len(rows) = 1
            /\ rows[1].zip_code = StrCell(<<"6", "0", "6", "2", "1">>)
            /\ rows[1].unemployment_percentage = Frac(10, 1)
            /\ SameProf(rows[1], math_and_science_prof[1])

\* a finished run of that scenario in which the three proficiency fields have
\* a value, and the report card also lists a school outside Chicago
C14_Witness ==
    /\ pc = "done" /\ OneSchoolOneZip
    /\ Written("merged_data.csv") # {}
    /\ Len(report_card.math) = 2
    /\ ~math_and_science_prof[1].ELA_Proficiency.na
    /\ ~math_and_science_prof[1].Math_Proficiency.na
    /\ ~math_and_science_prof[1].Science_Proficiency.na

----------------------------------------------------------------------------
(* The neighborhood of a ZIP code *)

\* name is the entry of zip_neighbor_dict for the ZIP code z
DictEntry(z, name) ==
    \E k \in 1..Len(zip_neighbor_dict) :
        /\ zip_neighbor_dict[k][1] = NatToStr(z)
        /\ zip_neighbor_dict[k][2] = name

\* C15: when the economic table is built, every ZIP code of ALL_ZIP_CODES has
\* an entry in zip_neighbor_dict;
\* every row of economic_characteristics.csv has the neighborhood its ZIP code
\* has in zip_neighbor_dict, never "Unknown"; so has every row of
\* merged_data.csv that has an economic match, and no other merged row has a
\* neighborhood.
C15_NeighborhoodNeverUnknown ==
    /\ pc = "clean_econ" =>
           \A z \in Range(ALL_ZIP_CODES) :
               /\ \E k \in 1..Len(zip_neighbor_dict) :
                      zip_neighbor_dict[k][1] = NatToStr(z)
               /\ neighborhood_of(IntCell(z)) # "Unknown"
    /\ \A rows \in Written("economic_characteristics.csv") :
           \A i \in 1..Len(rows) :
               /\ ~rows[i].zip_code.na
               /\ rows[i].neighborhood # "Unknown"
               /\ DictEntry(rows[i].zip_code.v, rows[i].neighborhood)
    /\ \A rows \in Written("merged_data.csv") :
           \A i \in 1..Len(rows) :
               /\ HasEcon(rows[i]) <=> ~rows[i].neighborhood.na
               /\ ~rows[i].neighborhood.na =>
                      /\ rows[i].neighborhood.v # "Unknown"
                      /\ DictEntry(StrToNat(rows[i].zip_code.v), rows[i].neighborhood.v)

\* a finished run whose economic file and merged file both have a row of ZIP
\* 60621 with the neighborhood Englewood
C15_Witness ==
    /\ pc = "done"
    /\ \E rows \in Written("economic_characteristics.csv") :
           \E i \in 1..Len(rows) :
               rows[i].zip_code = IntCell(60621) /\ rows[i].neighborhood = "Englewood"
    /\ \E rows \in Written("merged_data.csv") :
           \E i \in 1..Len(rows) : rows[i].neighborhood = Text("Englewood")

====
